---- MODULE Spec2Model ----
(***************************************************************************)
(* Flux-Survivalist: the terminal application of src/main.rs.              *)
(*                                                                         *)
(* The model follows main() and run_app() statement by statement.  The     *)
(* control position pc names the statement about to execute.  Calls into   *)
(* the terminal and input libraries (crossterm, tui) either succeed or     *)
(* return an error; both outcomes are modelled wherever the source uses    *)
(* the ? operator.  Time is in milliseconds.                               *)
(*                                                                         *)
(* Three specifications are given:                                         *)
(*   Spec     the whole program, from the entry of main() to its return;   *)
(*   SpecLive the same program on a clock read from the previous tick      *)
(*            boundary, so that the loop can run for ever;                 *)
(*   SpecApp  the App object alone, started from an arbitrary valid        *)
(*            (titles, cur_tab, scroll) and driven by arbitrary calls of   *)
(*            next(), previous() and on_tick().                            *)
(***************************************************************************)
EXTENDS Integers, Sequences, FiniteSets, TLC

VARIABLES
    titles,        \* App.titles
    cur_tab,       \* App.cur_tab   (usize)
    scroll,        \* App.scroll    (u8)
    inventory,     \* App.inventory
    pc,            \* statement of main()/run_app() about to execute
    res,           \* main's local res: the value run_app returned
    ret,           \* the value main returned
    printed,       \* main executed println!("{:?}", err)
    rawMode,       \* terminal is in raw mode
    altScreen,     \* terminal shows the alternate screen
    mouseCapture,  \* terminal reports mouse events
    now,           \* the monotonic clock read by Instant::now()/elapsed()
    last_tick,     \* run_app's local last_tick
    timeout,       \* run_app's local timeout
    ev,            \* the event last returned by event::read()
    frame,         \* what the last terminal.draw() put on the screen
    termCalls,     \* history: terminal-mode calls main has made, in order
    nRight,        \* history: Right-arrow key events consumed by run_app
    nLeft,         \* history: Left-arrow key events consumed by run_app
    lastOps,       \* history (SpecApp): the last two App methods called
    tabHist,       \* history (SpecApp): cur_tab before each of those calls
    runLen,        \* history (SpecApp): length of the current run of one method
    runTab,        \* history (SpecApp): cur_tab at the start of that run
    runScroll      \* history (SpecApp): scroll at the start of that run

appVars  == <<titles, cur_tab, scroll, inventory>>
mainVars == <<pc, res, ret, printed, rawMode, altScreen, mouseCapture>>
loopVars == <<now, last_tick, timeout, ev>>
histVars == <<termCalls, nRight, nLeft>>
objVars  == <<lastOps, tabHist, runLen, runTab, runScroll>>
vars     == <<appVars, mainVars, loopVars, frame, histVars, objVars, frame>>

----------------------------------------------------------------------------
(* Bounds of the model *)

MaxTime == 550    \* the clock stops advancing past this many milliseconds
MaxKeys == 2      \* at most this many Right and this many Left events
MaxTabs == 4      \* SpecApp: titles of length 1..MaxTabs
MaxRun  == 10     \* SpecApp: at most this many calls of one method in a row

\* Durations a step of the loop may take (draw, blocked poll, key handling).
Delays == {0, 90, 160, 300}

----------------------------------------------------------------------------
(* Program constants *)

TickRate  == 250   \* Duration::from_millis(250)
ScrollMod == 10    \* self.scroll %= 10
U8Max     == 255   \* scroll: u8

Events == {"q", "Right", "Left", "OtherKey", "Mouse", "Resize"}

\* App::new(): titles
NewTitles == <<"Tab1", "Tab2", "Tab3", "Tab4">>

\* App::new(): inventory
NewInventory == <<<<"Wood", 10>>, <<"Fibre", 3>>, <<"Water", 13>>>>

----------------------------------------------------------------------------
(* App methods *)

\* a next() that forgets the wrap-around
next_no_wrap(c, n) == c + 1

\* a next() that wraps one slot too late
next_wraps_late(c, n) == (c + 1) % (n + 1)

\* App::next
next(c, n) == (c + 1) % n

\* a previous() that stops at the first tab instead of wrapping
previous_saturating(c, n) == IF c > 0 THEN c - 1 ELSE 0

\* App::previous
previous(c, n) == IF c > 0 THEN c - 1 ELSE n - 1

\* an on_tick() that reduces before it increments
on_tick_mod_first(s) == (s % ScrollMod) + 1

\* App::on_tick: u8 += 1 (wraps at 256 in a release build), then %= 10
on_tick(s) == ((s + 1) % (U8Max + 1)) % ScrollMod

\* "self.scroll += 1" overflows u8: a panic in a debug build
on_tick_overflows(s) == s + 1 > U8Max

\* a ui whose arm for tab 2 carries the title of tab 1
ui_duplicate_arm(c) ==
    CASE c = 0 -> "Inner 0"
      [] c = 1 -> "Inner 1"
      [] c = 2 -> "Inner 1"
      [] c = 3 -> "Inner 3"
      [] OTHER -> "unreachable"

\* ui: the match on app.cur_tab; "unreachable" is the panicking arm
ui(c) ==
    CASE c = 0 -> "Inner 0"
      [] c = 1 -> "Inner 1"
      [] c = 2 -> "Inner 2"
      [] c = 3 -> "Inner 3"
      [] OTHER -> "unreachable"

\* the screen before the first draw
NoFrame == [tabs |-> <<>>, select |-> 0, inner |-> ""]

\* ui: the frame drawn for the current App: the Tabs widget over titles with
\* cur_tab selected, and the inner block
Rendered == [tabs |-> titles, select |-> cur_tab, inner |-> ui(cur_tab)]

----------------------------------------------------------------------------
(* run_app helpers *)

None    == <<>>
Some(x) == <<x>>

\* Duration::checked_sub
checked_sub(a, b) == IF b > a THEN None ELSE Some(a - b)

\* a timeout that falls back to the whole tick interval
Timeout_full_on_overrun(elapsed) ==
    LET r == checked_sub(TickRate, elapsed)
    IN  IF r = None THEN TickRate ELSE r[1]

\* tick_rate.checked_sub(last_tick.elapsed()).unwrap_or_else(|| 0s)
Timeout(elapsed) ==
    LET r == checked_sub(TickRate, elapsed)
    IN  IF r = None THEN 0 ELSE r[1]

\* last_tick.elapsed()
Elapsed == now - last_tick

\* a decoding with the two arrows swapped
KeyAction_swapped(e) ==
    CASE e = "q"     -> "return"
      [] e = "Right" -> "previous"
      [] e = "Left"  -> "next"
      [] OTHER       -> "none"

\* a decoding whose catch-all arm advances the tab
KeyAction_default_next(e) ==
    CASE e = "q"     -> "return"
      [] e = "Left"  -> "previous"
      [] OTHER       -> "next"

\* "if let Event::Key(key) = ... match key.code": what an event makes run_app do
KeyAction(e) ==
    CASE e = "q"     -> "return"
      [] e = "Right" -> "next"
      [] e = "Left"  -> "previous"
      [] OTHER       -> "none"

\* Exit status of the process for a value returned by main
ExitCode(r) == IF r = "Ok" THEN 0 ELSE 1

----------------------------------------------------------------------------
(* Initial state: entry of main(); the App fields hold App::new() *)

Init ==
    /\ titles = NewTitles
    /\ cur_tab = 0
    /\ scroll = 0
    /\ inventory = NewInventory
    /\ pc = "enable_raw"
    /\ res = "none"
    /\ ret = "none"
    /\ printed = FALSE
    /\ rawMode = FALSE
    /\ altScreen = FALSE
    /\ mouseCapture = FALSE
    /\ now = 0
    /\ last_tick = 0
    /\ timeout = 0
    /\ ev = "none"
    /\ frame = NoFrame
    /\ termCalls = <<>>
    /\ nRight = 0
    /\ nLeft = 0
    /\ lastOps = <<>>
    /\ tabHist = <<>>
    /\ runLen = 0
    /\ runTab = 0
    /\ runScroll = 0

----------------------------------------------------------------------------
(* main(), before the loop *)

\* an early "return Err(..)" of main through the ? operator
MainFails ==
    /\ ret' = "Err"
    /\ pc' = "exit"

\* line 78: enable_raw_mode()?
EnableRawMode ==
    /\ pc = "enable_raw"
    /\ termCalls' = Append(termCalls, "enable_raw_mode")
    /\ rawMode' = TRUE
    /\ pc' = "enter_alt"
    /\ UNCHANGED <<appVars, res, ret, printed, altScreen, mouseCapture,
                   loopVars, nRight, nLeft, objVars, frame>>

EnableRawModeFails ==
    /\ pc = "enable_raw"
    /\ termCalls' = Append(termCalls, "enable_raw_mode")
    /\ MainFails
    /\ UNCHANGED <<appVars, res, printed, rawMode, altScreen, mouseCapture,
                   loopVars, nRight, nLeft, objVars, frame>>

\* line 80: execute!(stdout, EnterAlternateScreen, EnableMouseCapture)?
EnterAlternateScreen ==
    /\ pc = "enter_alt"
    /\ termCalls' = Append(termCalls, "EnterAlternateScreen")
    /\ altScreen' = TRUE
    /\ mouseCapture' = TRUE
    /\ pc' = "new_terminal"
    /\ UNCHANGED <<appVars, res, ret, printed, rawMode,
                   loopVars, nRight, nLeft, objVars, frame>>

\* the write of the two commands fails; either, both or none took effect
EnterAlternateScreenFails ==
    /\ pc = "enter_alt"
    /\ termCalls' = Append(termCalls, "EnterAlternateScreen")
    /\ \E a \in BOOLEAN, m \in BOOLEAN :
          /\ m => a
          /\ altScreen' = a
          /\ mouseCapture' = m
    /\ MainFails
    /\ UNCHANGED <<appVars, res, printed, rawMode,
                   loopVars, nRight, nLeft, objVars, frame>>

\* lines 82-87: Terminal::new(backend)?, App::new(), entry of run_app
NewTerminal ==
    /\ pc = "new_terminal"
    /\ titles' = NewTitles
    /\ cur_tab' = 0
    /\ scroll' = 0
    /\ inventory' = NewInventory
    /\ last_tick' = now
    /\ pc' = "draw"
    /\ UNCHANGED <<res, ret, printed, rawMode, altScreen, mouseCapture,
                   now, timeout, ev, histVars, objVars, frame>>

NewTerminalFails ==
    /\ pc = "new_terminal"
    /\ MainFails
    /\ UNCHANGED <<appVars, res, printed, rawMode, altScreen, mouseCapture,
                   loopVars, histVars, objVars, frame>>

----------------------------------------------------------------------------
(* run_app: one iteration of the loop *)

\* a return that only takes effect after the rest of the iteration
Return_deferred(r) ==
    /\ res' = r
    /\ pc' = "tick"

\* run_app returns r to main, which continues at line 90
Return(r) ==
    /\ res' = r
    /\ pc' = "disable_raw"

\* line 116: terminal.draw(|f| ui(f, &app))?  The draw takes d milliseconds.
Draw ==
    /\ pc = "draw"
    /\ \E d \in Delays :
          /\ now + d <= MaxTime
          /\ now' = now + d
    /\ pc' = IF ui(cur_tab) = "unreachable" THEN "panicked" ELSE "timeout"
    /\ frame' = IF ui(cur_tab) = "unreachable" THEN frame ELSE Rendered
    /\ UNCHANGED <<appVars, res, ret, printed, rawMode, altScreen, mouseCapture,
                   last_tick, timeout, ev, histVars, objVars>>

DrawFails ==
    /\ pc = "draw"
    /\ Return("Err")
    /\ UNCHANGED <<appVars, ret, printed, rawMode, altScreen, mouseCapture,
                   loopVars, histVars, objVars, frame>>

\* lines 118-120: let timeout = ...
ComputeTimeout ==
    /\ pc = "timeout"
    /\ timeout' = Timeout(Elapsed)
    /\ pc' = "poll"
    /\ UNCHANGED <<appVars, res, ret, printed, rawMode, altScreen, mouseCapture,
                   now, last_tick, ev, histVars, objVars, frame>>

\* line 122: poll(timeout) returns true: an event arrived within the timeout
PollReady ==
    /\ pc = "poll"
    /\ \E d \in Delays :
          /\ d <= timeout
          /\ now + d <= MaxTime
          /\ now' = now + d
    /\ pc' = "read"
    /\ UNCHANGED <<appVars, res, ret, printed, rawMode, altScreen, mouseCapture,
                   last_tick, timeout, ev, histVars, objVars, frame>>

\* line 122: poll(timeout) returns false: the timeout passed with no event
PollTimesOut ==
    /\ pc = "poll"
    /\ now + timeout <= MaxTime
    /\ now' = now + timeout
    /\ pc' = "tick"
    /\ UNCHANGED <<appVars, res, ret, printed, rawMode, altScreen, mouseCapture,
                   last_tick, timeout, ev, histVars, objVars, frame>>

PollFails ==
    /\ pc = "poll"
    /\ Return("Err")
    /\ UNCHANGED <<appVars, ret, printed, rawMode, altScreen, mouseCapture,
                   loopVars, histVars, objVars, frame>>

\* lines 123-130: event::read()? returned e; the match on the key code
ReadEvent ==
    /\ pc = "read"
    /\ \E e \in Events :
          /\ e = "Mouse" => mouseCapture
          /\ e = "Right" => nRight < MaxKeys
          /\ e = "Left" => nLeft < MaxKeys
          /\ ev' = e
          /\ cur_tab' = CASE KeyAction(e) = "next" -> next(cur_tab, Len(titles))
                          [] KeyAction(e) = "previous" -> previous(cur_tab, Len(titles))
                          [] OTHER -> cur_tab
          /\ IF KeyAction(e) = "return"
                THEN Return("Ok")
                ELSE pc' = "tick" /\ res' = res
          /\ nRight' = IF e = "Right" THEN nRight + 1 ELSE nRight
          /\ nLeft' = IF e = "Left" THEN nLeft + 1 ELSE nLeft
    /\ UNCHANGED <<titles, scroll, inventory, ret, printed, rawMode, altScreen,
                   mouseCapture, now, last_tick, timeout, termCalls, objVars, frame>>

ReadFails ==
    /\ pc = "read"
    /\ Return("Err")
    /\ UNCHANGED <<appVars, ret, printed, rawMode, altScreen, mouseCapture,
                   loopVars, histVars, objVars, frame>>

\* a tick check that waits for two whole intervals
TickDue_two_intervals(elapsed) == elapsed >= 2 * TickRate

\* a tick check that needs more than a whole interval
TickDue_strict(elapsed) == elapsed > TickRate

\* line 133: last_tick.elapsed() >= tick_rate
TickDue(elapsed) == elapsed >= TickRate

\* a tick that also sends the view back to the first tab
TickAt_resets_tab(o) ==
    /\ pc = "tick"
    /\ \E d \in Delays, build \in {"debug", "release"} :
          /\ now + d <= MaxTime
          /\ IF TickDue(now + d - last_tick)
                THEN /\ now' = now + d - o
                     /\ last_tick' = now'
                     /\ scroll' = on_tick(scroll)
                     /\ cur_tab' = 0
                     /\ pc' = IF on_tick_overflows(scroll) /\ build = "debug"
                                 THEN "panicked" ELSE "draw"
                ELSE /\ now' = now + d
                     /\ UNCHANGED <<last_tick, scroll, cur_tab>>
                     /\ pc' = "draw"
    /\ UNCHANGED <<titles, inventory, res, ret, printed, rawMode,
                   altScreen, mouseCapture, timeout, ev, histVars, objVars, frame>>

\* a tick that makes up for every interval that has elapsed
TickAt_catches_up(o) ==
    /\ pc = "tick"
    /\ \E d \in Delays, build \in {"debug", "release"} :
          /\ now + d <= MaxTime
          /\ IF TickDue(now + d - last_tick)
                THEN /\ now' = now + d - o
                     /\ last_tick' = now'
                     /\ scroll' = (scroll + ((now + d - last_tick) \div TickRate)) % ScrollMod
                     /\ cur_tab' = cur_tab
                     /\ pc' = IF on_tick_overflows(scroll) /\ build = "debug"
                                 THEN "panicked" ELSE "draw"
                ELSE /\ now' = now + d
                     /\ UNCHANGED <<last_tick, scroll, cur_tab>>
                     /\ pc' = "draw"
    /\ UNCHANGED <<titles, inventory, res, ret, printed, rawMode,
                   altScreen, mouseCapture, timeout, ev, histVars, objVars, frame>>

\* lines 133-136: if last_tick.elapsed() >= tick_rate { ... }; d milliseconds
\* have passed since the poll returned (event handling).  Instants are only
\* ever subtracted from one another, so the clock may be read from any
\* origin: when a tick is applied the origin moves forward by o.
TickAt(o) ==
    /\ pc = "tick"
    /\ \E d \in Delays, build \in {"debug", "release"} :
          /\ now + d <= MaxTime
          /\ IF TickDue(now + d - last_tick)
                THEN /\ now' = now + d - o
                     /\ last_tick' = now'
                     /\ scroll' = on_tick(scroll)
                     /\ pc' = IF on_tick_overflows(scroll) /\ build = "debug"
                                 THEN "panicked" ELSE "draw"
                ELSE /\ now' = now + d
                     /\ UNCHANGED <<last_tick, scroll>>
                     /\ pc' = "draw"
    /\ UNCHANGED <<titles, cur_tab, inventory, res, ret, printed, rawMode,
                   altScreen, mouseCapture, timeout, ev, histVars, objVars, frame>>

\* the tick check on the clock that started with the program
Tick == TickAt(0)

----------------------------------------------------------------------------
(* main(), after run_app returned *)

\* line 90: disable_raw_mode()?
DisableRawMode ==
    /\ pc = "disable_raw"
    /\ termCalls' = Append(termCalls, "disable_raw_mode")
    /\ rawMode' = FALSE
    /\ pc' = "leave_alt"
    /\ UNCHANGED <<appVars, res, ret, printed, altScreen, mouseCapture,
                   loopVars, nRight, nLeft, objVars, frame>>

DisableRawModeFails ==
    /\ pc = "disable_raw"
    /\ termCalls' = Append(termCalls, "disable_raw_mode")
    /\ MainFails
    /\ UNCHANGED <<appVars, res, printed, rawMode, altScreen, mouseCapture,
                   loopVars, nRight, nLeft, objVars, frame>>

\* lines 92-96: execute!(.., LeaveAlternateScreen, DisableMouseCapture)?
LeaveAlternateScreen ==
    /\ pc = "leave_alt"
    /\ termCalls' = Append(termCalls, "LeaveAlternateScreen")
    /\ altScreen' = FALSE
    /\ mouseCapture' = FALSE
    /\ pc' = "show_cursor"
    /\ UNCHANGED <<appVars, res, ret, printed, rawMode,
                   loopVars, nRight, nLeft, objVars, frame>>

\* the write of the two commands fails; either, both or none took effect
LeaveAlternateScreenFails ==
    /\ pc = "leave_alt"
    /\ termCalls' = Append(termCalls, "LeaveAlternateScreen")
    /\ \E a \in BOOLEAN, m \in BOOLEAN :
          /\ a => m
          /\ altScreen' = a
          /\ mouseCapture' = m
    /\ MainFails
    /\ UNCHANGED <<appVars, res, printed, rawMode,
                   loopVars, nRight, nLeft, objVars, frame>>

\* line 98: terminal.show_cursor()?
ShowCursor ==
    /\ pc = "show_cursor"
    /\ pc' = "report"
    /\ UNCHANGED <<appVars, res, ret, printed, rawMode, altScreen, mouseCapture,
                   loopVars, histVars, objVars, frame>>

ShowCursorFails ==
    /\ pc = "show_cursor"
    /\ MainFails
    /\ UNCHANGED <<appVars, res, printed, rawMode, altScreen, mouseCapture,
                   loopVars, histVars, objVars, frame>>

\* lines 100-104: if let Err(err) = res { println!(..) }  Ok(())
Report ==
    /\ pc = "report"
    /\ printed' = (res = "Err")
    /\ ret' = "Ok"
    /\ pc' = "exit"
    /\ UNCHANGED <<appVars, res, rawMode, altScreen, mouseCapture,
                   loopVars, histVars, objVars, frame>>

Next ==
    \/ EnableRawMode \/ EnableRawModeFails
    \/ EnterAlternateScreen \/ EnterAlternateScreenFails
    \/ NewTerminal \/ NewTerminalFails
    \/ Draw \/ DrawFails
    \/ ComputeTimeout
    \/ PollReady \/ PollTimesOut \/ PollFails
    \/ ReadEvent \/ ReadFails
    \/ Tick
    \/ DisableRawMode \/ DisableRawModeFails
    \/ LeaveAlternateScreen \/ LeaveAlternateScreenFails
    \/ ShowCursor \/ ShowCursorFails
    \/ Report

Spec == Init /\ [][Next]_vars

----------------------------------------------------------------------------
(* SpecLive: the program run for as long as it likes.  Its clock is read    *)
(* from the previous tick boundary (the start of run_app before the first   *)
(* tick): each applied tick moves the origin to the boundary before it, so  *)
(* last_tick is the distance between the last two boundaries and MaxTime    *)
(* bounds the time since the previous one.  The one thread of the program   *)
(* always takes its next step.                                              *)

TickLive == TickAt(last_tick)

NextLive ==
    \/ EnableRawMode \/ EnableRawModeFails
    \/ EnterAlternateScreen \/ EnterAlternateScreenFails
    \/ NewTerminal \/ NewTerminalFails
    \/ Draw \/ DrawFails
    \/ ComputeTimeout
    \/ PollReady \/ PollTimesOut \/ PollFails
    \/ ReadEvent \/ ReadFails
    \/ TickLive
    \/ DisableRawMode \/ DisableRawModeFails
    \/ LeaveAlternateScreen \/ LeaveAlternateScreenFails
    \/ ShowCursor \/ ShowCursorFails
    \/ Report

SpecLive == Init /\ [][NextLive]_vars /\ WF_vars(NextLive)

----------------------------------------------------------------------------
(* SpecApp: the App object alone.  It starts from any titles of length      *)
(* 1..MaxTabs, any cur_tab indexing them and any scroll below 10; each step *)
(* is one call of next(), previous() or on_tick().                          *)

\* a vec of n tab titles, as App::new() builds for n = 4
TitlesOf(n) == [k \in 1..n |-> "Tab" \o ToString(k)]

InitApp ==
    /\ \E n \in 1..MaxTabs : titles = TitlesOf(n)
    /\ cur_tab \in 0..(Len(titles) - 1)
    /\ scroll \in 0..(ScrollMod - 1)
    /\ inventory = NewInventory
    /\ pc = "app"
    /\ res = "none"
    /\ ret = "none"
    /\ printed = FALSE
    /\ rawMode = FALSE
    /\ altScreen = FALSE
    /\ mouseCapture = FALSE
    /\ now = 0
    /\ last_tick = 0
    /\ timeout = 0
    /\ ev = "none"
    /\ frame = NoFrame
    /\ termCalls = <<>>
    /\ nRight = 0
    /\ nLeft = 0
    /\ lastOps = <<>>
    /\ tabHist = <<>>
    /\ runLen = 0
    /\ runTab = cur_tab
    /\ runScroll = scroll

LastOp == IF lastOps = <<>> THEN "none" ELSE lastOps[Len(lastOps)]

\* the history variables after a call of method op
Called(op) ==
    /\ pc = "app"
    /\ op = LastOp => runLen < MaxRun
    /\ lastOps' = IF lastOps = <<>> THEN <<op>> ELSE <<LastOp, op>>
    /\ tabHist' = IF tabHist = <<>> THEN <<cur_tab>>
                  ELSE <<tabHist[Len(tabHist)], cur_tab>>
    /\ runLen' = IF op = LastOp THEN runLen + 1 ELSE 1
    /\ runTab' = IF op = LastOp THEN runTab ELSE cur_tab
    /\ runScroll' = IF op = LastOp THEN runScroll ELSE scroll
    /\ UNCHANGED <<mainVars, loopVars, histVars, frame>>

\* app.next()
CallNext ==
    /\ Called("next")
    /\ cur_tab' = next(cur_tab, Len(titles))
    /\ UNCHANGED <<titles, scroll, inventory>>

\* app.previous()
CallPrevious ==
    /\ Called("previous")
    /\ cur_tab' = previous(cur_tab, Len(titles))
    /\ UNCHANGED <<titles, scroll, inventory>>

\* app.on_tick()
CallOnTick ==
    /\ Called("on_tick")
    /\ scroll' = on_tick(scroll)
    /\ UNCHANGED <<titles, cur_tab, inventory>>

NextApp == CallNext \/ CallPrevious \/ CallOnTick

SpecApp == InitApp /\ [][NextApp]_vars

----------------------------------------------------------------------------
(* Properties *)

InLoop == pc \in {"draw", "timeout", "poll", "read", "tick"}

\* number of calls of terminal-mode operation c that main has made
Calls(c) == Cardinality({i \in DOMAIN termCalls : termCalls[i] = c})

\* C1: in every state of the program cur_tab indexes titles, which has its
\* four constructed entries; so every render takes one of the arms 0..3 of
\* ui, never the unreachable!() arm, and cur_tab never goes below zero.
C1_TabInRange ==
    /\ Len(titles) = 4
    /\ 0 <= cur_tab
    /\ cur_tab < Len(titles)
    /\ pc # "panicked"
    /\ ui(cur_tab) # "unreachable"

\* the loop has rendered after a Left key wrapped cur_tab from 0 to the last tab
C1_Witness ==
    /\ pc = "timeout"
    /\ nLeft = 1
    /\ nRight = 0
    /\ cur_tab = Len(titles) - 1

\* C2: next() followed by previous(), and previous() followed by next(),
\* leave cur_tab where it was before the two calls, for every titles length
\* and every starting index.
C2_NextPreviousInverse ==
    (lastOps = <<"next", "previous">> \/ lastOps = <<"previous", "next">>)
        => cur_tab = tabHist[1]

\* next() wrapped from the last tab to the first and previous() wrapped back
C2_Witness ==
    /\ lastOps = <<"next", "previous">>
    /\ Len(titles) > 1
    /\ tabHist = <<Len(titles) - 1, 0>>
    /\ cur_tab = Len(titles) - 1

\* C3: after k calls of next() in a row from index i, cur_tab = (i + k) mod n;
\* so n calls return to i and, one step at a time, no fewer calls do.
C3_NextCycles ==
    LastOp = "next" =>
        /\ cur_tab = (runTab + runLen) % Len(titles)
        /\ runLen = Len(titles) => cur_tab = runTab
        /\ (0 < runLen /\ runLen < Len(titles)) => cur_tab # runTab

\* four calls of next() in a row on four tabs, started at the last tab
C3_Witness ==
    /\ LastOp = "next"
    /\ Len(titles) = 4
    /\ runLen = 4
    /\ runTab = 3
    /\ cur_tab = 3

\* C4: after k < 10 calls of on_tick() in a row from scroll = s < 10,
\* scroll = (s + k) mod 10; after exactly 10 calls scroll = s again.
C4_OnTickCycles ==
    LastOp = "on_tick" =>
        /\ runLen < 10 => scroll = (runScroll + runLen) % 10
        /\ runLen = 10 => scroll = runScroll

\* ten calls of on_tick() in a row, started at scroll = 7
C4_Witness ==
    /\ LastOp = "on_tick"
    /\ runLen = 10
    /\ runScroll = 7
    /\ scroll = 7

\* C5: once the 'q' key has been read the loop is over (no further render,
\* poll, read or tick, whether or not a tick was due), and when main has
\* returned it has called disable_raw_mode and LeaveAlternateScreen exactly
\* once each.
C5_QuitRestoresOnce ==
    /\ ev = "q" => ~InLoop /\ res = "Ok"
    /\ (ev = "q" /\ pc = "exit") =>
          /\ Calls("disable_raw_mode") = 1
          /\ Calls("LeaveAlternateScreen") = 1

\* C6: whenever main has returned after enable_raw_mode succeeded, it has
\* called both restoration steps, disable_raw_mode and LeaveAlternateScreen.
C6_RestoredOnEveryExit ==
    (pc = "exit" /\ Len(termCalls) >= 2) =>
        /\ Calls("disable_raw_mode") >= 1
        /\ Calls("LeaveAlternateScreen") >= 1

\* C7: once run_app has returned an error the loop is over, and when the
\* process ends it has reported an error (main's println!, or the runtime's
\* report of an Err returned by main) and its exit status is not zero.
C7_ErrorExitsNonZero ==
    /\ res = "Err" => ~InLoop
    /\ (res = "Err" /\ pc = "exit") =>
          /\ printed \/ ret = "Err"
          /\ ExitCode(ret) # 0

\* C8: the timeout handed to poll is max(0, 250ms - elapsed since last tick):
\* 250 - elapsed when elapsed <= 250 (160 for elapsed = 90), 0 when elapsed
\* is larger, and so always within 0..250.
C8_TimeoutClamped ==
    pc = "poll" =>
        /\ Elapsed <= 250 => timeout = 250 - Elapsed
        /\ Elapsed > 250 => timeout = 0
        /\ Elapsed = 90 => timeout = 160
        /\ 0 <= timeout
        /\ timeout <= 250

\* the draw overran the tick interval, and the poll is given a zero timeout
C8_Witness ==
    /\ pc = "poll"
    /\ Elapsed > 250
    /\ timeout = 0

\* C9: while run_app is running (no 'q' consumed), whatever ticks happened,
\* cur_tab = (Right events consumed - Left events consumed) mod 4.
C9_TabIsRightMinusLeft ==
    InLoop => cur_tab = (nRight - nLeft) % 4

\* two Right and one Left consumed, the Left last, with at least one tick
C9_Witness ==
    /\ pc = "draw"
    /\ nRight = 2
    /\ nLeft = 1
    /\ ev = "Left"
    /\ scroll > 0
    /\ cur_tab = 1

\* C10: a successful event::read() of 'q' ends the loop with Ok; of Right
\* moves cur_tab one tab forward; of Left one tab backward; of anything
\* else changes nothing; except for 'q' the loop goes on to its tick check,
\* and scroll, titles and inventory are never changed by the read.
C10_EventDecoding ==
    [][(pc = "read" /\ pc' # "read" /\ res' # "Err") =>
          /\ UNCHANGED <<titles, scroll, inventory>>
          /\ ev' = "q" => (pc' = "disable_raw" /\ res' = "Ok" /\ cur_tab' = cur_tab)
          /\ ev' = "Right" => (pc' = "tick" /\ cur_tab' = (cur_tab + 1) % 4)
          /\ ev' = "Left" => (pc' = "tick" /\ cur_tab' = (cur_tab + 3) % 4)
          /\ ev' \notin {"q", "Right", "Left"} =>
                (ev' \in Events /\ pc' = "tick" /\ cur_tab' = cur_tab)
          /\ ev' # "q" => res' = "none"
      ]_vars

\* a resize event was consumed on the third tab and the loop goes on
C10_Witness ==
    /\ pc = "tick"
    /\ ev = "Resize"
    /\ cur_tab = 2
    /\ res = "none"

\* C11 as claimed: in the iteration in which 'q' is read, the loop still
\* goes on to its tick check (lines 133-136) before it exits.
C11_QuitRunsTickStep ==
    [][(pc = "read" /\ pc' # "read" /\ res' # "Err" /\ ev' = "q")
          => pc' = "tick"]_vars

\* C11 as amended: reading 'q' returns Ok from run_app at once; the tick
\* check of that iteration is not executed and scroll, the tick clock and
\* cur_tab stay as they were, whether or not a tick was due.
C11_QuitSkipsTick ==
    [][(pc = "read" /\ pc' # "read" /\ res' # "Err" /\ ev' = "q") =>
          /\ pc' = "disable_raw"
          /\ res' = "Ok"
          /\ UNCHANGED <<scroll, last_tick, now, cur_tab>>
      ]_vars

\* 'q' was read when a tick was due; run_app returned without applying it
C11_Witness ==
    /\ pc = "disable_raw"
    /\ ev = "q"
    /\ res = "Ok"
    /\ Elapsed >= TickRate
    /\ last_tick = 0
    /\ scroll = 0

\* C12: the tick check of an iteration calls on_tick() exactly when the time
\* since last_tick is >= 250ms at the check, and then sets last_tick to the
\* current time; otherwise it changes neither scroll nor last_tick, and no
\* other step of an iteration changes them.
C12_TickIffDue ==
    /\ [][(pc = "tick" /\ pc' # "tick") =>
             IF now' - last_tick >= 250
                THEN scroll' = (scroll + 1) % 10 /\ last_tick' = now'
                ELSE scroll' = scroll /\ last_tick' = last_tick]_vars
    /\ [][pc # "tick" => UNCHANGED <<scroll, last_tick>>]_vars

\* the first tick was applied exactly 250ms after run_app started
C12_Witness ==
    /\ pc = "draw"
    /\ now = 250
    /\ last_tick = 250
    /\ scroll = 1

\* a step of SpecLive during which the clock advanced
TimePasses ==
    IF scroll' # scroll THEN now' + last_tick > now ELSE now' > now

\* C13: in every run in which time keeps advancing (so the loop never quits
\* or fails) on_tick() is called again and again; once 250ms have passed
\* since last_tick the tick is applied, unless the loop ends first, however
\* many events arrive; a tick check reached at or after last_tick + 250ms
\* applies the tick in that same iteration; and two consecutive tick
\* boundaries are at least 250ms apart.
C13_TickNotStarved ==
    /\ ([]<><<TimePasses>>_vars) => ([]<><<scroll' # scroll>>_vars)
    /\ (InLoop /\ Elapsed >= 250) ~> (Elapsed < 250 \/ ~InLoop)
    /\ [][(pc = "tick" /\ pc' # "tick" /\ Elapsed >= 250)
             => (scroll' = (scroll + 1) % 10 /\ pc' = "draw")]_vars
    /\ [][scroll' # scroll => (last_tick' >= 250 /\ now' = last_tick')]_vars

\* ten ticks have been applied while four arrow keys were handled
C13_Witness ==
    /\ pc = "draw"
    /\ scroll = 0
    /\ last_tick >= 250
    /\ nRight = 2
    /\ nLeft = 2

\* C14: however commands and ticks interleave, scroll stays within 0..9,
\* so "scroll += 1" never exceeds 255 and on_tick() never panics.
C14_ScrollInRange ==
    /\ 0 <= scroll
    /\ scroll < 10
    /\ scroll + 1 <= 255
    /\ pc # "panicked"

\* scroll has gone all the way round: ten ticks took it from 0 back to 0
C14_Witness ==
    /\ InLoop
    /\ scroll = 0
    /\ last_tick > 0

\* C15: a step that changes cur_tab is the key dispatch and changes neither
\* scroll, titles nor inventory; a step that changes scroll is the tick and
\* changes neither cur_tab, titles nor inventory; titles and inventory keep
\* their constructed values throughout.
C15_FrameConditions ==
    /\ [](/\ titles = <<"Tab1", "Tab2", "Tab3", "Tab4">>
          /\ inventory = <<<<"Wood", 10>>, <<"Fibre", 3>>, <<"Water", 13>>>>)
    /\ [][cur_tab' # cur_tab =>
             (pc = "read" /\ UNCHANGED <<scroll, titles, inventory>>)]_vars
    /\ [][scroll' # scroll =>
             (pc = "tick" /\ UNCHANGED <<cur_tab, titles, inventory>>)]_vars

\* next(), previous() and on_tick() have all been called
C15_Witness ==
    /\ InLoop
    /\ nRight = 2
    /\ nLeft = 1
    /\ scroll = 2
    /\ cur_tab = 1
    /\ inventory = <<<<"Wood", 10>>, <<"Fibre", 3>>, <<"Water", 13>>>>

\* C16: an iteration is draw, then poll, then read; the draw leaves the App
\* untouched; so whenever the loop polls or reads an event the screen shows
\* the current titles, cur_tab and inner block: whatever the previous
\* iteration changed was rendered before further input is consumed.
C16_RenderedBeforeInput ==
    /\ [](pc \in {"timeout", "poll", "read"} =>
             /\ frame.tabs = titles
             /\ frame.select = cur_tab
             /\ frame.inner = <<"Inner 0", "Inner 1", "Inner 2", "Inner 3">>[cur_tab + 1])
    /\ [][pc = "draw" => UNCHANGED <<titles, cur_tab, scroll, inventory>>]_vars
    /\ [][(pc' = "draw" /\ pc # "draw") => pc \in {"new_terminal", "tick"}]_vars
    /\ [][(pc' = "timeout" /\ pc # "timeout") => (pc = "draw" /\ frame' = Rendered)]_vars
    /\ [][(pc' = "poll" /\ pc # "poll") => pc = "timeout"]_vars
    /\ [][(pc' = "read" /\ pc # "read") => pc = "poll"]_vars
    /\ [][frame' # frame => pc = "draw"]_vars

\* a Right key and a tick of one iteration are on the screen at the next read
C16_Witness ==
    /\ pc = "read"
    /\ nRight = 2
    /\ nLeft = 0
    /\ scroll = 1
    /\ frame.select = 2
    /\ frame.inner = "Inner 2"

\* C17: between two renders cur_tab moves by at most one tab and scroll by at
\* most one: only the read step moves cur_tab, one step, and it is followed
\* by the tick check; only the tick check moves scroll, by one even when two
\* or more intervals have elapsed, and it is followed by the next render.
C17_OneEventOneTick ==
    /\ [](InLoop /\ frame # NoFrame =>
             cur_tab \in {frame.select, (frame.select + 1) % 4, (frame.select + 3) % 4})
    /\ [][cur_tab' # cur_tab =>
             /\ pc = "read" /\ pc' = "tick"
             /\ cur_tab' \in {(cur_tab + 1) % 4, (cur_tab + 3) % 4}]_vars
    /\ [][scroll' # scroll =>
             /\ pc = "tick" /\ pc' = "draw"
             /\ scroll' = (scroll + 1) % 10]_vars
    /\ [][(pc = "read" /\ pc' # "read") => pc' \in {"tick", "disable_raw"}]_vars
    /\ [][(pc = "tick" /\ pc' # "tick") => pc' = "draw"]_vars
    /\ [][(pc = "tick" /\ now' - last_tick >= 500) => scroll' = (scroll + 1) % 10]_vars

\* the first tick came two intervals late and advanced scroll by one only
C17_Witness ==
    /\ pc = "draw"
    /\ last_tick >= 500
    /\ now = last_tick
    /\ scroll = 1
    /\ frame.select # cur_tab

====
